---- MODULE Spec2Model ----
(***************************************************************************)
(* Session engine of the three-card Tarot application (src/index.tsx):     *)
(* the App component's state, its event handlers (handleStart,             *)
(* handleCardSelect, resetGame), the two one-shot timers they schedule and *)
(* the asynchronous merges of generateReading.                             *)
(*                                                                         *)
(* Spec   drives the handlers through the event interface of the design:   *)
(*        start in Input, select of an unfilled slot in Selecting, reset   *)
(*        in any state.                                                    *)
(* SpecUI drives them as the rendered page does: the reset control exists  *)
(*        only in Reading once the loading flag is cleared.  It observes   *)
(*        the services: each response is recorded as the last event.       *)
(* SpecResize is Spec with the window's resize events.                     *)
(* SpecTimers and SpecLive are SpecUI with the progress the runtime        *)
(*        guarantees: timers that fire, and, for SpecLive, services that   *)
(*        answer every request.                                            *)
(*                                                                         *)
(* Timers fire and requests resolve at any later step; timers of the same  *)
(* delay fire in the order they were set.                                  *)
(***************************************************************************)
EXTENDS Integers, Sequences, FiniteSets, TLC

\* ---------------------------------------------------------------- bounds
MaxResets == 1          \* resets per behaviour
MaxDraws == 4           \* cards drawn per behaviour, over all its sessions
MaxLayouts == 3         \* layouts computed per behaviour

\* ------------------------------------------------------- program constants
NumMajor == 22
NumSuits == 4
NumRanks == 14
NumSlots == 22
MobileBreakpoint == 768
DefaultWidth == 1000
SpreadSize == 3

\* ------------------------------------------------------------- Tarot data
\* FULL_DECK as indices 0..77: 0..21 the major arcana, then suit x rank.
FULL_DECK == 0 .. (NumMajor + NumSuits * NumRanks - 1)

deck == FULL_DECK

\* The two Math.random() results of one draw, sampled jointly: the deck index
\* Math.floor(Math.random() * deck.length) and whether Math.random() > 0.8.
\* The samples: the first card of the deck upright, the last one reversed.
Draws == {[card |-> 0, isReversed |-> FALSE],
          [card |-> Cardinality(deck) - 1, isReversed |-> TRUE]}

\* the slots clicked: the first three of the circle and the last one
Slots == {0, 1, 2, NumSlots - 1}

\* --------------------------------------------------------------- strings
Space == " "
Letter == "a"
Chars == {Space, Letter}

\* the texts typed into the question field
Questions == {<<>>, <<Space>>, <<Space, Space>>, <<Space, Letter, Space>>}

RECURSIVE TrimStart(_)
TrimStart(s) ==
    IF s = <<>> THEN <<>>
    ELSE IF Head(s) = Space THEN TrimStart(Tail(s)) ELSE s

RECURSIVE TrimEnd(_)
TrimEnd(s) ==
    IF s = <<>> THEN <<>>
    ELSE IF s[Len(s)] = Space THEN TrimEnd(SubSeq(s, 1, Len(s) - 1)) ELSE s

\* String.prototype.trim
Trim(s) == TrimEnd(TrimStart(s))

\* narrative texts
EmptyText == ""
ResponseText == "a reading"
SilentMessage == "The spirits are silent. Please try again."
ErrorMessage == "An error occurred while communing with the spirits. Please check your connection and try again."

\* outcomes of the two services
NarrativeOutcomes == {"text", "emptyText", "error"}
ImageOutcomes == {"inlineData", "noParts", "error"}

NoImage == <<>>

\* --------------------------------------------------------------- state
VARIABLES
    gameState,        \* 'input' | 'shuffling' | 'selecting' | 'reading'
    question,
    selectedCards,    \* sequence of CardData
    reading,
    loadingReading,
    layoutSeed,
    screenWidth,
    cardLayout,       \* the memoised layout: which sample of random jitter it holds
    shuffleTimers,    \* pending 2500 ms timers, oldest first
    readingTimers,    \* pending 1000 ms timers, oldest first
    requests,         \* service requests in flight
    session,          \* number of resets so far: tags timers and requests
    draws,            \* number of cards drawn so far
    lastEvent,        \* the event the last step handled, if it records one
    issued            \* per session, the requests sent so far to each service

sessionVars == <<gameState, question, selectedCards, reading, loadingReading,
                 layoutSeed, screenWidth, cardLayout>>

vars == <<gameState, question, selectedCards, reading, loadingReading,
          layoutSeed, screenWidth, cardLayout,
          shuffleTimers, readingTimers, requests, session, draws, lastEvent,
          issued>>

\* window.innerWidth: a width below the mobile breakpoint and the default one
Widths == {MobileBreakpoint - 1, DefaultWidth}

\* useMemo recomputes the layout from fresh Math.random() values: every
\* computation holds the next sample of the random sequence
NextLayout(layout) == layout + 1

\* start, selectSlot(slotId) and reset are the external events; typing,
\* timers and resizes record none.  The response of a service is an event of
\* the specifications that observe the services (SpecUI and those built on
\* it): it records the request answered and the outcome.
NoSlot == -1
NoRequest == [kind |-> "none", sess |-> NoSlot, id |-> NoSlot, name |-> NoSlot]
ExternalEvent(op, slot) ==
    [op |-> op, slot |-> slot, request |-> NoRequest, outcome |-> "none"]
NoEvent == ExternalEvent("none", NoSlot)
ResponseEvent(r, outcome) ==
    [op |-> "response", slot |-> r.id, request |-> r, outcome |-> outcome]

\* the sessions of a behaviour, by the number of resets before them
Sessions == 0 .. MaxResets

\* the requests sent for one session: how many of each kind
NoneIssued == [narrative |-> 0, image |-> 0]
Issued(counts, sent) ==
    [narrative |-> counts.narrative
                     + Cardinality({r \in sent : r.kind = "narrative"}),
     image |-> counts.image
                 + Cardinality({r \in sent : r.kind = "image"})]

Init ==
    /\ gameState = "input"
    /\ question = <<>>
    /\ selectedCards = <<>>
    /\ reading = EmptyText
    /\ loadingReading = FALSE
    /\ layoutSeed = 0
    /\ screenWidth = DefaultWidth
    /\ cardLayout = 0
    /\ shuffleTimers = <<>>
    /\ readingTimers = <<>>
    /\ requests = {}
    /\ session = 0
    /\ draws = 0
    /\ lastEvent = NoEvent
    /\ issued = [s \in Sessions |-> NoneIssued]

\* ------------------------------------------------------------- handlers
\* <input onChange>: rendered in 'input' only
SetQuestion(q) ==
    /\ gameState = "input"
    /\ question' = q
    /\ lastEvent' = NoEvent
    /\ UNCHANGED <<gameState, selectedCards, reading, loadingReading,
                   layoutSeed, screenWidth, cardLayout,
                   shuffleTimers, readingTimers, requests, session, draws,
                   issued>>

\* window 'resize': a new width changes a dependency of the layout memo
Resize(w) ==
    /\ cardLayout < MaxLayouts
    /\ screenWidth' = w
    /\ IF w # screenWidth
         THEN cardLayout' = NextLayout(cardLayout)
         ELSE cardLayout' = cardLayout
    /\ lastEvent' = NoEvent
    /\ UNCHANGED <<gameState, question, selectedCards, reading,
                   loadingReading, layoutSeed,
                   shuffleTimers, readingTimers, requests, session, draws,
                   issued>>

\* handleStart testing the question without trimming it
handleStart_NoTrim ==
    /\ gameState = "input"
    /\ lastEvent' = ExternalEvent("start", NoSlot)
    /\ IF question = <<>>
         THEN UNCHANGED <<gameState, layoutSeed, cardLayout, shuffleTimers>>
         ELSE /\ gameState' = "shuffling"
              /\ layoutSeed' = layoutSeed + 1
              /\ cardLayout' = NextLayout(cardLayout)
              /\ shuffleTimers' = Append(shuffleTimers, [sess |-> session])
    /\ UNCHANGED <<question, selectedCards, reading, loadingReading,
                   screenWidth, readingTimers, requests, session, draws,
                   issued>>

\* handleStart without setLayoutSeed
handleStart_KeepsLayout ==
    /\ gameState = "input"
    /\ lastEvent' = ExternalEvent("start", NoSlot)
    /\ IF Trim(question) = <<>>
         THEN UNCHANGED <<gameState, shuffleTimers>>
         ELSE /\ gameState' = "shuffling"
              /\ shuffleTimers' = Append(shuffleTimers, [sess |-> session])
    /\ UNCHANGED <<question, selectedCards, reading, loadingReading,
                   layoutSeed, screenWidth, cardLayout, readingTimers,
                   requests, session, draws, issued>>

\* handleStart without its setTimeout
handleStart_NoTimer ==
    /\ gameState = "input"
    /\ lastEvent' = ExternalEvent("start", NoSlot)
    /\ IF Trim(question) = <<>>
         THEN UNCHANGED <<gameState, layoutSeed, cardLayout>>
         ELSE /\ gameState' = "shuffling"
              /\ layoutSeed' = layoutSeed + 1
              /\ cardLayout' = NextLayout(cardLayout)
    /\ UNCHANGED <<question, selectedCards, reading, loadingReading,
                   screenWidth, shuffleTimers, readingTimers, requests,
                   session, draws, issued>>

handleStart ==
    /\ gameState = "input"
    /\ lastEvent' = ExternalEvent("start", NoSlot)
    /\ IF Trim(question) = <<>>
         THEN UNCHANGED <<gameState, layoutSeed, cardLayout, shuffleTimers>>
         ELSE /\ gameState' = "shuffling"
              /\ layoutSeed' = layoutSeed + 1
              /\ cardLayout' = NextLayout(cardLayout)
              /\ shuffleTimers' = Append(shuffleTimers, [sess |-> session])
    /\ UNCHANGED <<question, selectedCards, reading, loadingReading,
                   screenWidth, readingTimers, requests, session, draws,
                   issued>>

\* the slots the selecting view renders: those no selected card occupies
SlotShown(i) == \A k \in 1 .. Len(selectedCards) : selectedCards[k].id # i

\* handleCardSelect with `full` as the condition of its early return
CardSelectWithLimit(index, randomCard, isReversed, full) ==
    /\ gameState = "selecting"
    /\ SlotShown(index)
    /\ lastEvent' = ExternalEvent("select", index)
    /\ IF full
         THEN UNCHANGED <<selectedCards, readingTimers, draws>>
         ELSE LET newCard == [name |-> randomCard, isReversed |-> isReversed,
                              id |-> index, imageUrl |-> NoImage]
                  newSelection == Append(selectedCards, newCard)
              IN  /\ draws < MaxDraws
                  /\ draws' = draws + 1
                  /\ selectedCards' = newSelection
                  /\ IF Len(newSelection) = SpreadSize
                       THEN readingTimers' = Append(readingTimers,
                                [sess |-> session, cards |-> newSelection,
                                 question |-> question])
                       ELSE UNCHANGED readingTimers
    /\ UNCHANGED <<gameState, question, reading, loadingReading, layoutSeed,
                   screenWidth, cardLayout, shuffleTimers, requests, session,
                   issued>>

\* handleCardSelect without its early return
handleCardSelect_NoLimit(index, randomCard, isReversed) ==
    CardSelectWithLimit(index, randomCard, isReversed, FALSE)

\* handleCardSelect returning early only above three cards
handleCardSelect_OffByOne(index, randomCard, isReversed) ==
    CardSelectWithLimit(index, randomCard, isReversed,
                        Len(selectedCards) > SpreadSize)

\* handleCardSelect drawing again until the card is not one already drawn:
\* a card of the selection is never returned
handleCardSelect_NoRepeat(index, randomCard, isReversed) ==
    /\ gameState = "selecting"
    /\ SlotShown(index)
    /\ lastEvent' = ExternalEvent("select", index)
    /\ IF Len(selectedCards) >= SpreadSize
         THEN UNCHANGED <<selectedCards, readingTimers, draws>>
         ELSE LET newCard == [name |-> randomCard, isReversed |-> isReversed,
                              id |-> index, imageUrl |-> NoImage]
                  newSelection == Append(selectedCards, newCard)
              IN  /\ \A k \in 1 .. Len(selectedCards) :
                        selectedCards[k].name # randomCard
                  /\ draws < MaxDraws
                  /\ draws' = draws + 1
                  /\ selectedCards' = newSelection
                  /\ IF Len(newSelection) = SpreadSize
                       THEN readingTimers' = Append(readingTimers,
                                [sess |-> session, cards |-> newSelection,
                                 question |-> question])
                       ELSE UNCHANGED readingTimers
    /\ UNCHANGED <<gameState, question, reading, loadingReading, layoutSeed,
                   screenWidth, cardLayout, shuffleTimers, requests, session,
                   issued>>

\* handleCardSelect putting the new card first: [newCard, ...selectedCards]
handleCardSelect_Prepends(index, randomCard, isReversed) ==
    /\ gameState = "selecting"
    /\ SlotShown(index)
    /\ lastEvent' = ExternalEvent("select", index)
    /\ IF Len(selectedCards) >= SpreadSize
         THEN UNCHANGED <<selectedCards, readingTimers, draws>>
         ELSE LET newCard == [name |-> randomCard, isReversed |-> isReversed,
                              id |-> index, imageUrl |-> NoImage]
                  newSelection == <<newCard>> \o selectedCards
              IN  /\ draws < MaxDraws
                  /\ draws' = draws + 1
                  /\ selectedCards' = newSelection
                  /\ IF Len(newSelection) = SpreadSize
                       THEN readingTimers' = Append(readingTimers,
                                [sess |-> session, cards |-> newSelection,
                                 question |-> question])
                       ELSE UNCHANGED readingTimers
    /\ UNCHANGED <<gameState, question, reading, loadingReading, layoutSeed,
                   screenWidth, cardLayout, shuffleTimers, requests, session,
                   issued>>

handleCardSelect(index, randomCard, isReversed) ==
    /\ gameState = "selecting"
    /\ SlotShown(index)
    /\ lastEvent' = ExternalEvent("select", index)
    /\ IF Len(selectedCards) >= SpreadSize
         THEN UNCHANGED <<selectedCards, readingTimers, draws>>
         ELSE LET newCard == [name |-> randomCard, isReversed |-> isReversed,
                              id |-> index, imageUrl |-> NoImage]
                  newSelection == Append(selectedCards, newCard)
              IN  /\ draws < MaxDraws
                  /\ draws' = draws + 1
                  /\ selectedCards' = newSelection
                  /\ IF Len(newSelection) = SpreadSize
                       THEN readingTimers' = Append(readingTimers,
                                [sess |-> session, cards |-> newSelection,
                                 question |-> question])
                       ELSE UNCHANGED readingTimers
    /\ UNCHANGED <<gameState, question, reading, loadingReading, layoutSeed,
                   screenWidth, cardLayout, shuffleTimers, requests, session,
                   issued>>

\* resetGame without setReading('')
resetGame_KeepsReading ==
    /\ session < MaxResets
    /\ gameState' = "input"
    /\ question' = <<>>
    /\ selectedCards' = <<>>
    /\ session' = session + 1
    /\ lastEvent' = ExternalEvent("reset", NoSlot)
    /\ UNCHANGED <<reading, loadingReading, layoutSeed, screenWidth,
                   cardLayout, shuffleTimers, readingTimers, requests, draws,
                   issued>>

resetGame ==
    /\ session < MaxResets
    /\ gameState' = "input"
    /\ question' = <<>>
    /\ selectedCards' = <<>>
    /\ reading' = EmptyText
    /\ session' = session + 1
    /\ lastEvent' = ExternalEvent("reset", NoSlot)
    /\ UNCHANGED <<loadingReading, layoutSeed, screenWidth, cardLayout,
                   shuffleTimers, readingTimers, requests, draws, issued>>

\* the reset control of the reading view
ResetShown == gameState = "reading" /\ ~loadingReading

\* --------------------------------------------------------------- timers
\* setTimeout(() => setGameState('selecting'), 2500)
ShuffleTimerFires ==
    /\ shuffleTimers # <<>>
    /\ gameState' = "selecting"
    /\ shuffleTimers' = Tail(shuffleTimers)
    /\ lastEvent' = NoEvent
    /\ UNCHANGED <<question, selectedCards, reading, loadingReading,
                   layoutSeed, screenWidth, cardLayout,
                   readingTimers, requests, session, draws, issued>>

ImageRequest(card, s) ==
    [kind |-> "image", sess |-> s, id |-> card.id, name |-> card.name]

NarrativeRequest(cards, userQuestion, s) ==
    [kind |-> "narrative", sess |-> s, id |-> NoSlot, name |-> NoSlot]

\* the requests generateReading issues before its first await
generateReadingRequests(cards, userQuestion, s) ==
    {ImageRequest(cards[k], s) : k \in 1 .. Len(cards)}
        \cup {NarrativeRequest(cards, userQuestion, s)}

\* generateReading without setLoadingReading(true)
ReadingTimerFires_NoLoading ==
    /\ readingTimers # <<>>
    /\ LET t == Head(readingTimers)
           sent == generateReadingRequests(t.cards, t.question, t.sess)
       IN  /\ gameState' = "reading"
           /\ reading' = EmptyText
           /\ requests' = requests \cup sent
           /\ issued' = [issued EXCEPT ![t.sess] = Issued(@, sent)]
           /\ lastEvent' = NoEvent
    /\ readingTimers' = Tail(readingTimers)
    /\ UNCHANGED <<question, selectedCards, loadingReading, layoutSeed,
                   screenWidth, cardLayout, shuffleTimers, session, draws>>

\* the timer callback calling generateReading without setGameState('reading')
ReadingTimerFires_NoTransition ==
    /\ readingTimers # <<>>
    /\ LET t == Head(readingTimers)
           sent == generateReadingRequests(t.cards, t.question, t.sess)
       IN  /\ loadingReading' = TRUE
           /\ reading' = EmptyText
           /\ requests' = requests \cup sent
           /\ issued' = [issued EXCEPT ![t.sess] = Issued(@, sent)]
           /\ lastEvent' = NoEvent
    /\ readingTimers' = Tail(readingTimers)
    /\ UNCHANGED <<gameState, question, selectedCards, layoutSeed,
                   screenWidth, cardLayout, shuffleTimers, session, draws>>

\* setTimeout(() => { setGameState('reading'); generateReading(...) }, 1000)
ReadingTimerFires ==
    /\ readingTimers # <<>>
    /\ LET t == Head(readingTimers)
           sent == generateReadingRequests(t.cards, t.question, t.sess)
       IN  /\ gameState' = "reading"
           /\ loadingReading' = TRUE
           /\ reading' = EmptyText
           /\ requests' = requests \cup sent
           /\ issued' = [issued EXCEPT ![t.sess] = Issued(@, sent)]
           /\ lastEvent' = NoEvent
    /\ readingTimers' = Tail(readingTimers)
    /\ UNCHANGED <<question, selectedCards, layoutSeed, screenWidth,
                   cardLayout, shuffleTimers, session, draws>>

\* ------------------------------------------------------- request merges
\* the data URI a request's image is delivered as
ImageUri(r) == <<"data:image/png;base64", r.name, r.id, r.sess>>

\* generateCardImage answering a failure with a placeholder image
generateCardImage_Placeholder(r, outcome) ==
    IF outcome = "inlineData"
      THEN ImageUri(r)
      ELSE <<"data:image/png;base64", "placeholder">>

generateCardImage(r, outcome) ==
    IF outcome = "inlineData" THEN ImageUri(r) ELSE NoImage

\* the merge matching the card by its name
MergeImage_ByName(prev, r, imageUrl) ==
    [k \in 1 .. Len(prev) |->
        IF prev[k].name = r.name
          THEN [prev[k] EXCEPT !.imageUrl = imageUrl]
          ELSE prev[k]]

\* the merge building the card anew without its orientation
MergeImage_DropsOrientation(prev, r, imageUrl) ==
    [k \in 1 .. Len(prev) |->
        IF prev[k].id = r.id
          THEN [name |-> prev[k].name, isReversed |-> FALSE,
                id |-> prev[k].id, imageUrl |-> imageUrl]
          ELSE prev[k]]

\* prev.map(c => c.id === card.id ? { ...c, imageUrl } : c)
MergeImage(prev, r, imageUrl) ==
    [k \in 1 .. Len(prev) |->
        IF prev[k].id = r.id
          THEN [prev[k] EXCEPT !.imageUrl = imageUrl]
          ELSE prev[k]]

ImageMerged(cards, r, outcome) ==
    LET imageUrl == generateCardImage(r, outcome)
    IN  IF imageUrl # NoImage THEN MergeImage(cards, r, imageUrl) ELSE cards

ImageResolves(r, outcome) ==
    /\ r \in requests
    /\ r.kind = "image"
    /\ selectedCards' = ImageMerged(selectedCards, r, outcome)
    /\ requests' = requests \ {r}
    /\ UNCHANGED <<gameState, question, reading, loadingReading, layoutSeed,
                   screenWidth, cardLayout, shuffleTimers, readingTimers,
                   session, draws, issued>>

\* response.text of a response that arrived
ResponseTextOf(outcome) ==
    IF outcome = "text" THEN ResponseText ELSE EmptyText

\* the narrative set to response.text whatever it is
NarrativeText_NoFallback(outcome) ==
    IF outcome = "error" THEN ErrorMessage ELSE ResponseTextOf(outcome)

\* response.text || "The spirits are silent...", or the catch branch
NarrativeText(outcome) ==
    IF outcome = "error"
      THEN ErrorMessage
      ELSE LET text == ResponseTextOf(outcome)
           IN  IF text # EmptyText THEN text ELSE SilentMessage

\* generateReading with setLoadingReading(false) as the last statement of
\* the try block instead of the finally block
NarrativeResolves_NoFinally(r, outcome) ==
    /\ r \in requests
    /\ r.kind = "narrative"
    /\ reading' = NarrativeText(outcome)
    /\ loadingReading' = IF outcome = "error" THEN loadingReading ELSE FALSE
    /\ requests' = requests \ {r}
    /\ UNCHANGED <<gameState, question, selectedCards, layoutSeed,
                   screenWidth, cardLayout, shuffleTimers, readingTimers,
                   session, draws, issued>>

\* generateReading without its finally block
NarrativeResolves_KeepsLoading(r, outcome) ==
    /\ r \in requests
    /\ r.kind = "narrative"
    /\ reading' = NarrativeText(outcome)
    /\ requests' = requests \ {r}
    /\ UNCHANGED <<gameState, question, selectedCards, loadingReading,
                   layoutSeed, screenWidth, cardLayout, shuffleTimers,
                   readingTimers, session, draws, issued>>

\* generateReading sending the narrative request again when it failed
NarrativeResolves_Retries(r, outcome) ==
    /\ r \in requests
    /\ r.kind = "narrative"
    /\ IF outcome = "error"
         THEN /\ issued' = [issued EXCEPT ![r.sess] = Issued(@, {r})]
              /\ UNCHANGED <<reading, loadingReading, requests>>
         ELSE /\ reading' = NarrativeText(outcome)
              /\ loadingReading' = FALSE
              /\ requests' = requests \ {r}
              /\ UNCHANGED issued
    /\ UNCHANGED <<gameState, question, selectedCards, layoutSeed,
                   screenWidth, cardLayout, shuffleTimers, readingTimers,
                   session, draws>>

NarrativeResolves(r, outcome) ==
    /\ r \in requests
    /\ r.kind = "narrative"
    /\ reading' = NarrativeText(outcome)
    /\ loadingReading' = FALSE
    /\ requests' = requests \ {r}
    /\ UNCHANGED <<gameState, question, selectedCards, layoutSeed,
                   screenWidth, cardLayout, shuffleTimers, readingTimers,
                   session, draws, issued>>

\* ------------------------------------------------------- specifications
Environment ==
    \/ \E q \in Questions : SetQuestion(q)
    \/ handleStart
    \/ \E i \in Slots, d \in Draws :
           handleCardSelect(i, d.card, d.isReversed)

\* the responses of the two services, unobserved
Responses ==
    \/ \E r \in requests, o \in ImageOutcomes :
           ImageResolves(r, o) /\ lastEvent' = NoEvent
    \/ \E r \in requests, o \in NarrativeOutcomes :
           NarrativeResolves(r, o) /\ lastEvent' = NoEvent

\* the same with every response observed
ResponsesObserved ==
    \/ \E r \in requests, o \in ImageOutcomes :
           ImageResolves(r, o) /\ lastEvent' = ResponseEvent(r, o)
    \/ \E r \in requests, o \in NarrativeOutcomes :
           NarrativeResolves(r, o) /\ lastEvent' = ResponseEvent(r, o)

Runtime ==
    \/ ShuffleTimerFires
    \/ ReadingTimerFires
    \/ Responses

RuntimeObserved ==
    \/ ShuffleTimerFires
    \/ ReadingTimerFires
    \/ ResponsesObserved

Next ==
    \/ Environment
    \/ Runtime
    \/ resetGame

Spec == Init /\ [][Next]_vars

NextUI ==
    \/ Environment
    \/ RuntimeObserved
    \/ (ResetShown /\ resetGame)

SpecUI == Init /\ [][NextUI]_vars

NextResize ==
    \/ Next
    \/ \E w \in Widths : Resize(w)

SpecResize == Init /\ [][NextResize]_vars

\* A timer that is set fires: setTimeout is never cancelled.
TimersFire == WF_vars(ShuffleTimerFires) /\ WF_vars(ReadingTimerFires)

\* Every request is answered, with a result or a failure.
RequestsAnswered == WF_vars(ResponsesObserved)

\* the page with its timers firing, the services free never to answer
SpecTimers == Init /\ [][NextUI]_vars /\ TimersFire

\* the page with its timers firing and its requests answered
SpecLive == Init /\ [][NextUI]_vars /\ TimersFire /\ RequestsAnswered

\* ------------------------------------------------------------- claims
Count == Len(selectedCards)

\* C1: the drawn-card sequence always has between 0 and 3 entries, and no
\* step that leaves the session in Selecting makes the count smaller.
CountBoundedAndMonotone ==
    /\ [](Count \in 0 .. SpreadSize)
    /\ [][gameState = "selecting" /\ gameState' = "selecting"
            => Len(selectedCards') >= Count]_vars

\* C1 witness: three cards drawn, the third just selected, still Selecting
ThreeCardsSelected ==
    /\ gameState = "selecting"
    /\ Count = SpreadSize
    /\ lastEvent.op = "select"
    /\ readingTimers # <<>>

\* C2: the lifecycle state and the drawn-card count agree: 0 in Input and in
\* Shuffling, 0..3 in Selecting, exactly 3 in Reading.
LifecycleMatchesCount ==
    /\ gameState \in {"input", "shuffling"} => Count = 0
    /\ gameState = "selecting" => Count \in 0 .. SpreadSize
    /\ gameState = "reading" => Count = SpreadSize

\* C3: every change of the lifecycle state is Input->Shuffling,
\* Shuffling->Selecting, Selecting->Reading or a reset to Input.
OnlySpecifiedTransitions ==
    [][gameState' # gameState =>
         \/ gameState = "input" /\ gameState' = "shuffling"
         \/ gameState = "shuffling" /\ gameState' = "selecting"
         \/ gameState = "selecting" /\ gameState' = "reading"
         \/ gameState' = "input" /\ lastEvent'.op = "reset"]_vars

\* C4: the state a reset leaves is Input with an empty question, an empty
\* drawn-card sequence and an empty narrative text, whatever state it was
\* performed in.
ResetYieldsEmptyInput ==
    lastEvent.op = "reset" =>
        /\ gameState = "input"
        /\ question = <<>>
        /\ selectedCards = <<>>
        /\ reading = EmptyText

\* C4 witness: a reset performed in Reading, with requests of the session it
\* ended still in flight
ResetDuringReading ==
    /\ lastEvent.op = "reset"
    /\ \E r \in requests : r.kind = "narrative"

\* the step merges the result of request r
Resolves(r) == r \in requests /\ requests' = requests \ {r}

\* the request was issued for a session that has since been reset
Superseded(r) == r.sess < session

\* C5: the artwork result of a superseded session changes no DrawnCard of
\* the later session.
StaleArtworkDiscarded ==
    [][\A r \in requests :
         r.kind = "image" /\ Superseded(r) /\ Resolves(r)
            => selectedCards' = selectedCards]_vars

\* the step is the firing of a timer scheduled before the last reset
StaleShuffleTimerFires ==
    /\ shuffleTimers # <<>>
    /\ Head(shuffleTimers).sess < session
    /\ shuffleTimers' = Tail(shuffleTimers)

StaleReadingTimerFires ==
    /\ readingTimers # <<>>
    /\ Head(readingTimers).sess < session
    /\ readingTimers' = Tail(readingTimers)

\* C6: a timer that fires after a reset of the session that scheduled it
\* changes no session field and starts no request.
StaleTimerIsNoOp ==
    [][StaleShuffleTimerFires \/ StaleReadingTimerFires
          => UNCHANGED <<sessionVars, requests>>]_vars

\* C7: the narrative result of a superseded session, success or failure,
\* changes neither the narrative text nor the loading flag.
StaleNarrativeDiscarded ==
    [][\A r \in requests :
         r.kind = "narrative" /\ Superseded(r) /\ Resolves(r)
            => reading' = reading /\ loadingReading' = loadingReading]_vars

\* C8: the requests of the live session and what their merges write
SessionRequests == {r \in requests : r.sess = session}

Outcomes(r) == IF r.kind = "image" THEN ImageOutcomes ELSE NarrativeOutcomes

Merged(st, r, outcome) ==
    IF r.kind = "image"
      THEN [st EXCEPT !.cards = ImageMerged(st.cards, r, outcome)]
      ELSE [st EXCEPT !.reading = NarrativeText(outcome), !.loading = FALSE]

\* the narrative request and the three artwork requests are all pending
AllFourPending == Cardinality(SessionRequests) = SpreadSize + 1

\* C8: in Reading, the merges of any two pending requests of the session
\* commute, whatever the outcome of each: merged in either order they yield
\* the same narrative text, loading flag and cards.  The property holds in
\* every reachable state, so also after any part of the four results has
\* been merged: any two orders of the four resolutions differ by swaps of
\* neighbours and end in the same state.
MergeOrderIrrelevant ==
    gameState = "reading" =>
        LET st == [cards |-> selectedCards, reading |-> reading,
                   loading |-> loadingReading]
        IN  \A r1, r2 \in SessionRequests :
              \A o1 \in Outcomes(r1), o2 \in Outcomes(r2) :
                 r1 # r2 =>
                    Merged(Merged(st, r1, o1), r2, o2)
                       = Merged(Merged(st, r2, o2), r1, o1)

\* C8 witness: Reading with the narrative and the three artworks pending,
\* two of the cards carrying the same identifier
FourRequestsPending ==
    /\ gameState = "reading"
    /\ AllFourPending
    /\ Count = SpreadSize
    /\ selectedCards[1].name = selectedCards[2].name

\* C9: a select-slot event at count 3 changes neither the lifecycle state
\* nor the drawn cards nor any other session field, and schedules no timer
\* and no request.
SelectAtThreeIsNoOp ==
    [][lastEvent'.op = "select" /\ Count = SpreadSize
          => UNCHANGED <<sessionVars, shuffleTimers, readingTimers,
                         requests>>]_vars

\* C9 witness: a fourth slot was clicked with three cards drawn
FourthSlotClicked ==
    /\ lastEvent.op = "select"
    /\ Count = SpreadSize
    /\ \A k \in 1 .. Count : selectedCards[k].id # lastEvent.slot

\* C10: a start event with an empty or whitespace-only question changes
\* nothing, and Input->Shuffling happens only on a start event with a
\* question that is non-empty once trimmed.
BlankQuestionBlocksStart ==
    /\ [][lastEvent'.op = "start" /\ Trim(question) = <<>>
            => UNCHANGED <<sessionVars, shuffleTimers, readingTimers,
                           requests>>]_vars
    /\ [][gameState = "input" /\ gameState' = "shuffling"
            => Trim(question) # <<>> /\ lastEvent'.op = "start"]_vars

\* C10 witness: start was requested with a whitespace-only question
StartWithBlankQuestion ==
    /\ lastEvent.op = "start"
    /\ gameState = "input"
    /\ question # <<>>
    /\ Trim(question) = <<>>

\* the step merges a response of the given service with one of the outcomes
Answered(kind, outcomes) ==
    /\ lastEvent'.op = "response"
    /\ lastEvent'.request.kind = kind
    /\ lastEvent'.outcome \in outcomes

\* the last step merged such a response
LastAnswered(kind, outcomes) ==
    /\ lastEvent.op = "response"
    /\ lastEvent.request.kind = kind
    /\ lastEvent.outcome \in outcomes

\* C11: a narrative request that fails sets the narrative text to the fixed
\* error message and clears the loading flag; the session stays in Reading,
\* the cards, their artwork and every other field stay as they were, and no
\* request is issued in its place.
NarrativeFailureIsTerminal ==
    [][Answered("narrative", {"error"}) =>
         /\ reading' = ErrorMessage
         /\ loadingReading' = FALSE
         /\ gameState = "reading" /\ gameState' = "reading"
         /\ UNCHANGED <<question, selectedCards, layoutSeed, screenWidth,
                        cardLayout, shuffleTimers, readingTimers>>
         /\ requests' = requests \ {lastEvent'.request}]_vars

\* C11 witness: the narrative request just failed in Reading, with artwork
\* already merged into a card
NarrativeFailed ==
    /\ LastAnswered("narrative", {"error"})
    /\ gameState = "reading"
    /\ \E k \in 1 .. Count : selectedCards[k].imageUrl # NoImage

\* C12: an artwork request that fails or returns no image changes no
\* session field, so the card's imageUrl stays absent, and leaves every
\* other request of the reading pending.
ArtworkFailureChangesNothing ==
    [][Answered("image", {"noParts", "error"}) =>
         /\ UNCHANGED <<sessionVars, shuffleTimers, readingTimers>>
         /\ requests' = requests \ {lastEvent'.request}]_vars

\* C12 witness: the artwork of one card just failed while the narrative and
\* another artwork are pending, and the card has no imageUrl
ArtworkFailed ==
    /\ LastAnswered("image", {"noParts", "error"})
    /\ \E k \in 1 .. Count :
          /\ selectedCards[k].id = lastEvent.request.id
          /\ selectedCards[k].imageUrl = NoImage
    /\ \E r1, r2 \in SessionRequests :
          r1.kind = "narrative" /\ r2.kind = "image"

\* C16: the merge of an artwork sets imageUrl on the cards whose id is the
\* id of the request's card, at most one card, wherever it sits, and changes
\* nothing else: no other card, no id, name or orientation, not the order
\* or length of the sequence, nor the narrative text, the loading flag, the
\* question or the lifecycle state.
ArtworkMergeTouchesOneCard ==
    [][Answered("image", {"inlineData"}) =>
         LET r == lastEvent'.request
         IN  /\ Len(selectedCards') = Count
             /\ \A k \in 1 .. Count :
                   selectedCards'[k] =
                     IF selectedCards[k].id = r.id
                       THEN [name |-> selectedCards[k].name,
                             isReversed |-> selectedCards[k].isReversed,
                             id |-> selectedCards[k].id,
                             imageUrl |-> ImageUri(r)]
                       ELSE selectedCards[k]
             /\ Cardinality({k \in 1 .. Count : selectedCards[k].id = r.id})
                    <= 1
             /\ UNCHANGED <<gameState, question, reading, loadingReading,
                            layoutSeed, screenWidth, cardLayout,
                            shuffleTimers, readingTimers>>]_vars

\* C16 witness: an artwork was just merged into the last card of the
\* sequence, a reversed one, while the cards before it have none
ArtworkMergedIntoLastCard ==
    /\ LastAnswered("image", {"inlineData"})
    /\ Count = SpreadSize
    /\ selectedCards[SpreadSize].id = lastEvent.request.id
    /\ selectedCards[SpreadSize].isReversed
    /\ selectedCards[SpreadSize].imageUrl = ImageUri(lastEvent.request)
    /\ selectedCards[1].imageUrl = NoImage
    /\ selectedCards[2].imageUrl = NoImage

\* C17 as stated: a narrative request that succeeds sets the narrative text
\* to the response text, whatever that text is, and clears the loading flag.
NarrativeIsResponseText ==
    [][Answered("narrative", {"text", "emptyText"}) =>
         /\ reading' = ResponseTextOf(lastEvent'.outcome)
         /\ loadingReading' = FALSE]_vars

\* C17: a narrative request that succeeds sets the narrative text to the
\* response text when that text is not empty and to the fixed message of
\* the silent spirits when it is empty, and clears the loading flag.
NarrativeIsResponseTextOrSilent ==
    [][Answered("narrative", {"text", "emptyText"}) =>
         LET text == ResponseTextOf(lastEvent'.outcome)
         IN  /\ reading' = (IF text = EmptyText THEN SilentMessage ELSE text)
             /\ loadingReading' = FALSE]_vars

\* C17 witness: the narrative request just succeeded with an empty text
NarrativeSucceededEmpty ==
    /\ LastAnswered("narrative", {"emptyText"})
    /\ gameState = "reading"
    /\ reading = SilentMessage
    /\ ~loadingReading

\* C13: the layout is recomputed on the steps that enter Shuffling and on no
\* other step; a resize in particular leaves it as it is.
LayoutChangesOnlyOnShuffle ==
    [][cardLayout' # cardLayout
          <=> gameState # "shuffling" /\ gameState' = "shuffling"]_vars

\* C20: the state a reset leaves has the fresh-session value of every
\* session field: Input, an empty question, no cards, an empty narrative
\* text and a cleared loading flag.
ResetYieldsFreshSession ==
    lastEvent.op = "reset" =>
        /\ gameState = "input"
        /\ question = <<>>
        /\ selectedCards = <<>>
        /\ reading = EmptyText
        /\ loadingReading = FALSE

\* the requests of one reading: one narrative, one artwork per card
OneReading == [narrative |-> 1, image |-> SpreadSize]

TimerPending(s) ==
    \E k \in 1 .. Len(readingTimers) : readingTimers[k].sess = s

\* C19: the requests sent for a session are none, while its cards are not
\* all drawn or its 1000 ms timer is pending, or exactly one narrative
\* request and three artwork requests, once the timer of its three cards
\* has fired; and requests are sent by the firing of such a timer only,
\* never by the merge of a response, failed or not.
RequestsIssuedOnce ==
    /\ [](\A s \in Sessions :
            /\ issued[s] \in {NoneIssued, OneReading}
            /\ TimerPending(s) => issued[s] = NoneIssued)
    /\ [](Count = SpreadSize /\ ~TimerPending(session)
            => issued[session] = OneReading)
    /\ [](Count < SpreadSize => issued[session] = NoneIssued)
    /\ [][issued' # issued \/ ~(requests' \subseteq requests)
            => /\ readingTimers # <<>>
               /\ readingTimers' = Tail(readingTimers)]_vars

\* C19 witness: the requests of the session were sent, its narrative request
\* failed and is not pending again
NarrativeFailedNotReissued ==
    /\ gameState = "reading"
    /\ issued[session] = OneReading
    /\ reading = ErrorMessage
    /\ \A r \in SessionRequests : r.kind = "image"
    /\ SessionRequests # {}

\* C15: a session in Shuffling is, unless it is reset, eventually in
\* Selecting, and the step from Shuffling to Selecting is the firing of a
\* 2500 ms timer.
ShufflingLeadsToSelecting ==
    /\ \A s \in Sessions :
          (session = s /\ gameState = "shuffling")
             ~> (gameState = "selecting" \/ session # s)
    /\ [][gameState = "shuffling" /\ gameState' = "selecting"
            => shuffleTimers # <<>> /\ shuffleTimers' = Tail(shuffleTimers)
               /\ lastEvent' = NoEvent]_vars

\* C15 witness: Selecting was entered by the timer, no card drawn yet
SelectingAfterShuffle ==
    /\ gameState = "selecting"
    /\ Count = 0
    /\ lastEvent = NoEvent
    /\ shuffleTimers = <<>>
    /\ layoutSeed > 0

\* C18: a session whose third card is drawn is, unless it is reset,
\* eventually in Reading, whether or not any request is ever answered.
ThirdCardLeadsToReading ==
    \A s \in Sessions :
       (session = s /\ Count = SpreadSize /\ TimerPending(s))
          ~> (gameState = "reading" \/ session # s)

\* C18 witness: Reading was entered and none of the four requests is
\* answered
ReadingWithNothingAnswered ==
    /\ gameState = "reading"
    /\ issued[session] = OneReading
    /\ AllFourPending
    /\ loadingReading
    /\ lastEvent = NoEvent

\* C14: a session whose requests were sent has, unless it is reset,
\* eventually a narrative text that is not empty, a cleared loading flag and
\* no request pending, every artwork merged or left absent.
ReadingCompletes ==
    \A s \in Sessions :
       (session = s /\ gameState = "reading" /\ issued[s] = OneReading)
          ~> \/ session # s
             \/ /\ reading # EmptyText
                /\ ~loadingReading
                /\ SessionRequests = {}

\* C14 witness: the four requests of the reading are answered, the narrative
\* is set and one card has its artwork while another has none
ReadingCompleted ==
    /\ gameState = "reading"
    /\ issued[session] = OneReading
    /\ SessionRequests = {}
    /\ reading # EmptyText
    /\ ~loadingReading
    /\ \E j, k \in 1 .. Count :
          /\ selectedCards[j].imageUrl # NoImage
          /\ selectedCards[k].imageUrl = NoImage

\* C21: the state every step from Input to Shuffling leaves has no drawn
\* card and a layout computed by that step: the next sample of the random
\* values, under a seed one above the previous.
StartClearsCardsAndLayout ==
    [][gameState = "input" /\ gameState' = "shuffling"
          => /\ selectedCards' = <<>>
             /\ layoutSeed' = layoutSeed + 1
             /\ cardLayout' = NextLayout(cardLayout)
             /\ cardLayout' # cardLayout]_vars

\* C21 witness: Shuffling was just entered by a session that follows one
\* in which cards were drawn
ShufflingAfterEarlierDraws ==
    /\ gameState = "shuffling"
    /\ lastEvent.op = "start"
    /\ session > 0
    /\ draws > 0
    /\ selectedCards = <<>>

\* C22: a select-slot event in Selecting with fewer than three cards appends
\* one card at the end of the sequence: the cards before it are the
\* sequence as it was, the new card has the id of the slot selected, a name
\* of the deck, an orientation and no imageUrl.
SelectAppendsOneCard ==
    [][lastEvent'.op = "select" /\ Count < SpreadSize
          => /\ gameState = "selecting"
             /\ Len(selectedCards') = Count + 1
             /\ SubSeq(selectedCards', 1, Count) = selectedCards
             /\ LET newCard == selectedCards'[Count + 1]
                IN  /\ newCard.id = lastEvent'.slot
                    /\ newCard.name \in FULL_DECK
                    /\ newCard.isReversed \in BOOLEAN
                    /\ newCard.imageUrl = NoImage]_vars

\* C22 witness: the second card was just appended, selected from a slot
\* that precedes the slot of the first
SecondCardAppended ==
    /\ gameState = "selecting"
    /\ lastEvent.op = "select"
    /\ Count = 2
    /\ selectedCards[2].id = lastEvent.slot
    /\ selectedCards[2].id < selectedCards[1].id
    /\ selectedCards[2].name # selectedCards[1].name

\* C23: wherever a card can be drawn (Selecting, fewer than three cards),
\* every card of the deck can be drawn from every slot shown, in either
\* orientation, whatever cards the selection holds.
DrawsWithReplacement ==
    gameState = "selecting" /\ Count < SpreadSize /\ draws < MaxDraws =>
        \A i \in Slots :
           SlotShown(i) =>
              \A card \in deck, isReversed \in BOOLEAN :
                 ENABLED handleCardSelect(i, card, isReversed)

\* C23 witness: two cards of the selection carry the same name
SameCardDrawnTwice ==
    /\ gameState = "selecting"
    /\ Count = 2
    /\ selectedCards[1].name = selectedCards[2].name
    /\ selectedCards[1].id # selectedCards[2].id

\* the card an image delivered by ImageUri was drawn for
ImageSubject(imageUrl) == imageUrl[2]

\* C24: every card that has an imageUrl holds an image requested for its
\* own name.
ArtworkMatchesCard ==
    \A k \in 1 .. Count :
       selectedCards[k].imageUrl # NoImage
          => ImageSubject(selectedCards[k].imageUrl) = selectedCards[k].name

\* C25: in Reading with the loading flag cleared, the state in which the
\* page shows the narrative and the reset control, the narrative text is
\* not empty.
ShownNarrativeIsNotEmpty ==
    gameState = "reading" /\ ~loadingReading => reading # EmptyText

\* C25 witness: the page shows the text of a response; artwork requests are
\* still pending
NarrativeShown ==
    /\ ResetShown
    /\ reading = ResponseText
    /\ \E r \in SessionRequests : r.kind = "image"

====
